---- MODULE Spec2Model ----
(***************************************************************************)
(* aliwork-helper: the typed field-value comparison and diff engine        *)
(* (field.js: getFieldTypeById, getFieldDataTypeById,                      *)
(* fieldValueEqualSingle, fieldValueDiff) and utils.js isEmpty.            *)
(*                                                                         *)
(* JavaScript values are records tagged by k.  A string is a sequence of   *)
(* tokens (so that split/replace can act on it); objects, arrays, maps and *)
(* sets carry an identity id: two of them are the same reference exactly   *)
(* when they are the same record, id included.                             *)
(***************************************************************************)
EXTENDS Integers, Sequences, FiniteSets, TLC

VARIABLES
    pc,         \* position of the caller: "callEqual" | "equalDone" | "equalThrown" |
                \* "callDiff" | "diffDone" | "diffThrown"
    fieldType,  \* the fieldType argument (a JS string or undefined)
    valA,       \* fieldValueEqualSingle: argument valA
    valB,       \* fieldValueEqualSingle: argument valB
    newVal,     \* fieldValueDiff: argument newVal
    oldVal,     \* fieldValueDiff: argument oldVal
    ret,        \* the returned value (a boolean for fieldValueEqualSingle,
                \* the result record for fieldValueDiff); NoRet before the return
    logger,     \* a FieldChangeLogger: getOldValue and logMap
    loggerTrace,\* history: per field the diff of its latest change call since
                \* the last clear, and whether that call ran its callback
    rt,         \* a call of retry: its parameters, its locals and what it did
    runner,     \* a BatchTaskRunner, its task provider and a call of start()
    page,       \* the form page hijackSubmit acts on
    ds          \* the remote data source: a paged query in progress, the requests
                \* sent, and the caller's options object

fieldVars == <<fieldType, valA, valB, newVal, oldVal, ret>>
loggerVars == <<logger, loggerTrace>>
vars == <<pc, fieldType, valA, valB, newVal, oldVal, ret, logger, loggerTrace, rt, runner,
          page, ds>>

\* Longest array drawn as an input (field value sequences and regionIds).
MaxLen == 2

\* Largest retryTimes passed to retry explicitly.
MaxRetryTimes == 2

\* Largest number of tasks a task provider hands out before it ends.
MaxTasks == 3

\* Largest batchSize passed to the BatchTaskRunner constructor.
MaxBatchSize == 2

\* Most calls of hijackSubmit on one page, and most clicks on its masks.
MaxHijacks == 2
MaxClicks == 2

\* Most full pages the backend holds before its first page of another length.
MaxPages == 2

----------------------------------------------------------------------------
(* JavaScript values *)

Undef == [k |-> "undefined"]
Null == [k |-> "null"]
NaN == [k |-> "NaN"]
Num(n) == [k |-> "number", n |-> n]
Str(tokens) == [k |-> "string", s |-> tokens]
S(word) == Str(<<word>>)
EmptyStr == Str(<<>>)
Arr(elems, id) == [k |-> "array", elems |-> elems, id |-> id]
Obj(attrs, id) == [k |-> "object", attrs |-> attrs, id |-> id]
MapV(size, id) == [k |-> "Map", size |-> size, id |-> id]
SetV(size, id) == [k |-> "Set", size |-> size, id |-> id]
WeakMapV(id) == [k |-> "WeakMap", id |-> id]
WeakSetV(id) == [k |-> "WeakSet", id |-> id]
NoAttrs == << >>
NoRet == [k |-> "none"]

\* a component that a behaviour does not use
Unused == [k |-> "unused"]
FieldIdle ==
    /\ fieldType = Undef /\ valA = Undef /\ valB = Undef
    /\ newVal = Undef /\ oldVal = Undef /\ ret = NoRet
LoggerIdle == logger = Unused /\ loggerTrace = Unused
RetryIdle == rt = Unused
RunnerIdle == runner = Unused
PageIdle == page = Unused
DataSourceIdle == ds = Unused

\* typeof value
TypeOf(v) ==
    CASE v.k = "undefined" -> "undefined"
      [] v.k = "string" -> "string"
      [] v.k \in {"number", "NaN"} -> "number"
      [] OTHER -> "object"

\* ToBoolean(value), as used by !x, x || y and if (x)
Truthy(v) ==
    CASE v.k \in {"undefined", "null", "NaN"} -> FALSE
      [] v.k = "string" -> v.s # <<>>
      [] v.k = "number" -> v.n # 0
      [] v.k = "boolean" -> v.b
      [] OTHER -> TRUE

\* a === b: NaN equals nothing; primitives by value; objects by reference
StrictEq(a, b) ==
    IF a.k = "NaN" \/ b.k = "NaN" THEN FALSE ELSE a = b

\* value.prop for a value that is neither undefined nor null
GetProp(v, prop) ==
    IF v.k = "object" /\ prop \in DOMAIN v.attrs THEN v.attrs[prop] ELSE Undef

\* arr[index] with a 0-based index, for a value that is neither undefined nor null
Index(v, index) ==
    IF v.k = "array" /\ index + 1 \in DOMAIN v.elems THEN v.elems[index + 1] ELSE Undef

----------------------------------------------------------------------------
(* utils.js *)

\* a plausible slip: every falsy value (the number 0 too) counts as empty
isEmptyFalsy(value) ==
    \/ ~Truthy(value)
    \/ (value.k = "array" /\ Len(value.elems) = 0)
    \/ (value.k \in {"Map", "Set"} /\ value.size = 0)
    \/ (value.k = "object" /\ DOMAIN value.attrs = {})

isEmpty(value) ==
    IF \/ value = EmptyStr
       \/ value = Null
       \/ value = Undef
       \/ (TypeOf(value) = "number" /\ value.k = "NaN")
    THEN TRUE
    ELSE IF TypeOf(value) = "object"
         THEN CASE value.k = "array" -> Len(value.elems) = 0
                [] value.k = "Map" -> value.size = 0
                [] value.k = "Set" -> value.size = 0
                [] value.k = "WeakMap" -> FALSE
                [] value.k = "WeakSet" -> FALSE
                [] OTHER -> DOMAIN value.attrs = {}
         ELSE FALSE

----------------------------------------------------------------------------
(* field.js: field ids and field types *)

\* the index of the first token equal to tok, 0 when there is none
RECURSIVE FirstIndexFrom(_, _, _)
FirstIndexFrom(tokens, tok, i) ==
    IF i > Len(tokens) THEN 0
    ELSE IF tokens[i] = tok THEN i
    ELSE FirstIndexFrom(tokens, tok, i + 1)

\* str.split("_")[0]
SplitFirst(tokens) ==
    LET i == FirstIndexFrom(tokens, "_", 1)
    IN IF i = 0 THEN tokens ELSE SubSeq(tokens, 1, i - 1)

\* str.replace("Field", ""): only the first occurrence goes
ReplaceFirstField(tokens) ==
    LET i == FirstIndexFrom(tokens, "Field", 1)
    IN IF i = 0 THEN tokens
       ELSE SubSeq(tokens, 1, i - 1) \o SubSeq(tokens, i + 1, Len(tokens))

getFieldTypeById(fieldId) ==
    IF ~Truthy(fieldId) THEN Undef
    ELSE Str(ReplaceFirstField(SplitFirst(fieldId.s)))

getFieldDataTypeById(fieldId, multiple) ==
    IF ~Truthy(fieldId) THEN Undef
    ELSE LET type == getFieldTypeById(fieldId)
         IN CASE type \in {S("text"), S("textarea"), S("radio"), S("select"),
                           S("cascadeSelect"), S("digitalSignature")} -> S("string")
              [] type \in {S("number"), S("rate"), S("date")} -> S("number")
              [] type \in {S("cascadeDate"), S("address")} -> S("object")
              [] type \in {S("checkbox"), S("multiSelect"), S("countrySelect"),
                           S("image"), S("attachment"), S("departmentSelect"),
                           S("associationForm")} -> S("array")
              [] type = S("employee") -> IF multiple THEN S("array") ELSE S("object")
              [] OTHER -> S("string")

----------------------------------------------------------------------------
(* field.js: fieldValueEqualSingle *)

\* regionsA.every((regionId, index) => regionId === regionsB[index])
RECURSIVE EveryRegion(_, _, _)
EveryRegion(regionsA, regionsB, index) ==
    IF index >= Len(regionsA.elems) THEN TRUE
    ELSE IF ~StrictEq(regionsA.elems[index + 1], Index(regionsB, index)) THEN FALSE
    ELSE EveryRegion(regionsA, regionsB, index + 1)

\* the address case raises a TypeError: regionsA has no every method, or the
\* first callback reads an index of undefined or null
AddressThrows(a, b) ==
    LET regionsA == GetProp(a, "regionIds")
        regionsB == GetProp(b, "regionIds")
    IN \/ regionsA.k # "array"
       \/ (Len(regionsA.elems) > 0 /\ regionsB.k \in {"undefined", "null"})

AddressEqual(a, b) ==
    LET regionsA == GetProp(a, "regionIds")
        regionsB == GetProp(b, "regionIds")
        regionEqual == EveryRegion(regionsA, regionsB, 0)
    IN StrictEq(GetProp(a, "address"), GetProp(b, "address")) /\ regionEqual

\* whether fieldValueEqualSingle(fieldType, valA, valB) throws
fieldValueEqualSingleThrows(type, a, b) ==
    /\ ~(isEmpty(a) /\ isEmpty(b))
    /\ ~((~isEmpty(a) /\ isEmpty(b)) \/ (~isEmpty(b) /\ isEmpty(a)))
    /\ type = S("address")
    /\ AddressThrows(a, b)

\* a plausible slip: the records themselves compared, not their value attribute
ValueEqualByReference(a, b) == StrictEq(a, b)

\* case "countrySelect" / "employee" / "departmentSelect"
ValueEqual(a, b) == StrictEq(GetProp(a, "value"), GetProp(b, "value"))

\* case "image" / "attachment"
UrlEqual(a, b) == StrictEq(GetProp(a, "url"), GetProp(b, "url"))

\* case "associationForm"
InstanceIdEqual(a, b) == StrictEq(GetProp(a, "instanceId"), GetProp(b, "instanceId"))

\* a plausible slip: start compared with end
CascadeDateEqualCrossed(a, b) ==
    /\ StrictEq(GetProp(a, "start"), GetProp(b, "end"))
    /\ StrictEq(GetProp(a, "end"), GetProp(b, "start"))

\* case "cascadeDate"
CascadeDateEqual(a, b) ==
    /\ StrictEq(GetProp(a, "start"), GetProp(b, "start"))
    /\ StrictEq(GetProp(a, "end"), GetProp(b, "end"))

\* the boolean fieldValueEqualSingle(fieldType, valA, valB) returns when it returns
fieldValueEqualSingle(type, a, b) ==
    IF isEmpty(a) /\ isEmpty(b) THEN TRUE
    ELSE IF (~isEmpty(a) /\ isEmpty(b)) \/ (~isEmpty(b) /\ isEmpty(a)) THEN FALSE
    ELSE CASE type \in {S("countrySelect"), S("employee"), S("departmentSelect")} ->
                ValueEqual(a, b)
           [] type \in {S("image"), S("attachment")} -> UrlEqual(a, b)
           [] type = S("associationForm") -> InstanceIdEqual(a, b)
           [] type = S("cascadeDate") -> CascadeDateEqual(a, b)
           [] type = S("address") ->
                IF AddressThrows(a, b) THEN FALSE ELSE AddressEqual(a, b)
           [] OTHER -> StrictEq(a, b)

----------------------------------------------------------------------------
(* field.js: fieldValueDiff *)

\* newVal || [] followed by the Array.isArray wrap: the elements of the
\* sequence the reduces iterate (arrayNewVal / arrayOldVal)
ToArray(v) ==
    LET orEmpty == IF Truthy(v) THEN v ELSE Arr(<<>>, 0)
    IN IF orEmpty.k = "array" THEN orEmpty.elems ELSE <<orEmpty>>

\* arr.find((item) => fieldValueEqualSingle(fieldType, item, current)):
\* the first such item, undefined when there is none
RECURSIVE FindMatch(_, _, _, _)
FindMatch(type, arr, current, i) ==
    IF i > Len(arr) THEN Undef
    ELSE IF fieldValueEqualSingle(type, arr[i], current) THEN arr[i]
    ELSE FindMatch(type, arr, current, i + 1)

\* one step of either reduce callback: if (match) return coll; else return [...coll, current]
ReduceStep(coll, current, match) ==
    IF Truthy(match) THEN coll ELSE Append(coll, current)

\* arrayNewVal.reduce(..., []) over the elements from index i on
RECURSIVE AddedFrom(_, _, _, _, _)
AddedFrom(type, arrayNewVal, arrayOldVal, coll, i) ==
    IF i > Len(arrayNewVal) THEN coll
    ELSE LET current == arrayNewVal[i]
             match == FindMatch(type, arrayOldVal, current, 1)
         IN AddedFrom(type, arrayNewVal, arrayOldVal,
                      ReduceStep(coll, current, match), i + 1)

\* arrayOldVal.reduce(..., []) over the elements from index i on
RECURSIVE RemovedFrom(_, _, _, _, _)
RemovedFrom(type, arrayNewVal, arrayOldVal, coll, i) ==
    IF i > Len(arrayOldVal) THEN coll
    ELSE LET current == arrayOldVal[i]
             match == FindMatch(type, arrayNewVal, current, 1)
         IN RemovedFrom(type, arrayNewVal, arrayOldVal,
                        ReduceStep(coll, current, match), i + 1)

Added(type, arrayNewVal, arrayOldVal) ==
    AddedFrom(type, arrayNewVal, arrayOldVal, <<>>, 1)

\* a plausible slip: removed computed by the reduce over the new sequence again
RemovedAsAdded(type, arrayNewVal, arrayOldVal) ==
    AddedFrom(type, arrayNewVal, arrayOldVal, <<>>, 1)

Removed(type, arrayNewVal, arrayOldVal) ==
    RemovedFrom(type, arrayNewVal, arrayOldVal, <<>>, 1)

\* a plausible slip: the employee type left to its "object" data type
IsArrayBranchNoEmployee(type) ==
    getFieldDataTypeById(type, FALSE) = S("array")

\* the branch test of fieldValueDiff
IsArrayBranch(type) ==
    getFieldDataTypeById(type, FALSE) = S("array") \/ type = S("employee")

\* a plausible slip: only the added elements decide
IsEqualOfAdded(added, removed) ==
    Len(added) = 0

\* result.isEqual of the sequence branch
IsEqualOf(added, removed) ==
    Len(added) = 0 /\ Len(removed) = 0

\* whether fieldValueDiff(fieldType, newVal, oldVal) throws.  In the sequence
\* branch the type is never "address", the only case of
\* fieldValueEqualSingle that can throw.
fieldValueDiffThrows(type, n, o) ==
    /\ ~IsArrayBranch(type)
    /\ fieldValueEqualSingleThrows(type, n, o)

\* a plausible slip: the result keeps the values defaulted for the reduces
ResultOfDefaulted(n, o) ==
    [new |-> IF Truthy(n) THEN n ELSE Arr(<<>>, 0),
     old |-> IF Truthy(o) THEN o ELSE Arr(<<>>, 0)]

\* const result = { new: newVal, old: oldVal }
ResultOf(n, o) == [new |-> n, old |-> o]

\* the record fieldValueDiff(fieldType, newVal, oldVal) returns; added and
\* removed are given by their elements
fieldValueDiff(type, n, o) ==
    LET result == ResultOf(n, o)
    IN IF IsArrayBranch(type)
       THEN LET arrayNewVal == ToArray(n)
                arrayOldVal == ToArray(o)
                added == Added(type, arrayNewVal, arrayOldVal)
                removed == Removed(type, arrayNewVal, arrayOldVal)
            IN [new |-> result.new, old |-> result.old,
                isEqual |-> IsEqualOf(added, removed),
                diff |-> [added |-> added, removed |-> removed]]
       ELSE [new |-> result.new, old |-> result.old,
             isEqual |-> fieldValueEqualSingle(type, n, o)]

----------------------------------------------------------------------------
(* The inputs *)

\* the FieldType typedef
FieldTypeNames ==
    {"text", "textarea", "number", "rate", "radio", "checkbox", "date",
     "cascadeDate", "employee", "departmentSelect", "select", "multiSelect",
     "cascadeSelect", "associationForm", "image", "attachment",
     "digitalSignature", "countrySelect", "address"}

FieldTypes == {S(name) : name \in FieldTypeNames}

StringTypes == {S("text"), S("textarea"), S("radio"), S("select"),
                S("cascadeSelect"), S("digitalSignature")}
NumberTypes == {S("number"), S("rate"), S("date")}
StringSeqTypes == {S("checkbox"), S("multiSelect")}
ValueKeyedTypes == {S("countrySelect"), S("employee"), S("departmentSelect")}
UrlKeyedTypes == {S("image"), S("attachment")}
RecordSeqTypes == (ValueKeyedTypes \ {S("employee")}) \cup UrlKeyedTypes
                      \cup {S("associationForm")}
\* the types whose value is an ordered sequence
SequenceTypes == StringSeqTypes \cup RecordSeqTypes

SeqsUpTo(E, n) == UNION {[1..m -> E] : m \in 0..n}

\* the attribute the type's rule reads from a record
KeyOf(type) ==
    CASE type \in ValueKeyedTypes -> "value"
      [] type \in UrlKeyedTypes -> "url"
      [] OTHER -> "instanceId"

\* the same content held by another object (a different reference)
CopyOf(v) == IF "id" \in DOMAIN v THEN [v EXCEPT !.id = 2] ELSE v

\* the values isEmpty accepts, and the number 0 beside them
EmptyValues == {Undef, Null, EmptyStr, NaN, Arr(<<>>, 1), Obj(NoAttrs, 1)}
Containers == {MapV(0, 1), MapV(1, 1), SetV(0, 1), SetV(1, 1), WeakMapV(1), WeakSetV(1)}
CommonValues == EmptyValues \cup Containers \cup {Num(0), Num(1), S("a")}

\* the records of a type whose rule reads one key attribute
KeyedRecords(type) ==
    {Obj([x \in {KeyOf(type)} |-> S("1")], 1),
     Obj([x \in {KeyOf(type), "name"} |-> IF x = "name" THEN S("x") ELSE S("1")], 1),
     Obj([x \in {KeyOf(type)} |-> S("2")], 1),
     Obj([name |-> S("x")], 1)}

CascadeDates ==
    {Obj([start |-> Num(1), end |-> Num(2)], 1),
     Obj([start |-> Num(1), end |-> Num(3)], 1),
     Obj([start |-> Num(2), end |-> Num(2)], 1),
     Obj([start |-> Num(1)], 1),
     Obj([end |-> Num(2)], 1)}

RegionIdSeqs == SeqsUpTo({S("1"), S("2")}, MaxLen)

\* well-formed address records, and two that lack regionIds
Addresses ==
    {Obj([address |-> S(a), regionIds |-> Arr(r, 1)], 1) :
        a \in {"x", "y"}, r \in RegionIdSeqs}
WellFormedAddress(v) ==
    /\ v.k = "object"
    /\ DOMAIN v.attrs = {"address", "regionIds"}
    /\ v.attrs["regionIds"].k = "array"
MalformedAddresses ==
    {Obj([address |-> S("x")], 1), Obj([address |-> S("x"), regionIds |-> Null], 1)}

\* the single values offered to fieldValueEqualSingle for a type
SingleValues(type) ==
    CommonValues \cup
    (CASE type \in StringTypes -> {S("b")}
       [] type \in NumberTypes -> {Num(2)}
       [] type \in StringSeqTypes ->
            {S("b")} \cup {Arr(e, 1) : e \in SeqsUpTo({S("a"), S("b")}, MaxLen)}
       [] type \in RecordSeqTypes \cup {S("employee")} ->
            KeyedRecords(type) \cup
            {Arr(e, 1) : e \in SeqsUpTo({Obj([x \in {KeyOf(type)} |-> S("1")], 1)}, MaxLen)}
       [] type = S("cascadeDate") -> CascadeDates
       [] type = S("address") -> Addresses \cup MalformedAddresses
       [] OTHER -> {})

\* the elements of the sequences offered to fieldValueDiff for a type
DiffElements(type) ==
    IF type \in StringSeqTypes THEN {EmptyStr, S("a"), S("b"), Null}
    ELSE {Obj([x \in {KeyOf(type)} |-> S("1")], 1),
          Obj([x \in {KeyOf(type), "name"} |-> IF x = "name" THEN S("x") ELSE S("1")], 1),
          Obj([x \in {KeyOf(type)} |-> S("2")], 1),
          Obj(NoAttrs, 1),
          Null}

\* the values offered to fieldValueDiff for a type
DiffValues(type) ==
    CASE type \in SequenceTypes \cup {S("employee")} ->
            {Undef, Null} \cup DiffElements(type) \cup
            {Arr(e, 1) : e \in SeqsUpTo(DiffElements(type), MaxLen)}
      [] type \in NumberTypes -> {Undef, Null, NaN, Num(0), Num(1), Num(2)}
      [] type = S("cascadeDate") -> {Undef, Obj(NoAttrs, 1)} \cup CascadeDates
      [] type = S("address") -> {Undef} \cup Addresses \cup MalformedAddresses
      [] OTHER -> {Undef, Null, EmptyStr, S("a"), S("b")}

\* fieldValueDiff is also handed what getFieldTypeById makes of a field id:
\* an unknown type, or undefined
DiffTypeInputs == FieldTypes \cup {S("table"), Undef}

----------------------------------------------------------------------------
(* The callers *)

Bool(b) == [k |-> "boolean", b |-> b]

InitEqual ==
    /\ pc = "callEqual"
    /\ fieldType \in FieldTypes
    /\ valA \in SingleValues(fieldType)
    /\ valB \in SingleValues(fieldType) \cup {CopyOf(v) : v \in SingleValues(fieldType)}
    /\ newVal = Undef
    /\ oldVal = Undef
    /\ ret = NoRet
    /\ LoggerIdle /\ RetryIdle /\ RunnerIdle /\ PageIdle /\ DataSourceIdle

InitDiff ==
    /\ pc = "callDiff"
    /\ fieldType \in DiffTypeInputs
    /\ newVal \in DiffValues(fieldType)
    /\ oldVal \in DiffValues(fieldType)
    /\ valA = Undef
    /\ valB = Undef
    /\ ret = NoRet
    /\ LoggerIdle /\ RetryIdle /\ RunnerIdle /\ PageIdle /\ DataSourceIdle

\* ret = fieldValueEqualSingle(fieldType, valA, valB)
CallFieldValueEqualSingle ==
    /\ pc = "callEqual"
    /\ IF fieldValueEqualSingleThrows(fieldType, valA, valB)
       THEN pc' = "equalThrown" /\ ret' = NoRet
       ELSE pc' = "equalDone" /\ ret' = Bool(fieldValueEqualSingle(fieldType, valA, valB))
    /\ UNCHANGED <<fieldType, valA, valB, newVal, oldVal>>
    /\ UNCHANGED <<logger, loggerTrace, rt, runner, page, ds>>

\* ret = fieldValueDiff(fieldType, newVal, oldVal)
CallFieldValueDiff ==
    /\ pc = "callDiff"
    /\ IF fieldValueDiffThrows(fieldType, newVal, oldVal)
       THEN pc' = "diffThrown" /\ ret' = NoRet
       ELSE pc' = "diffDone" /\ ret' = fieldValueDiff(fieldType, newVal, oldVal)
    /\ UNCHANGED <<fieldType, valA, valB, newVal, oldVal>>
    /\ UNCHANGED <<logger, loggerTrace, rt, runner, page, ds>>

NextEqual == CallFieldValueEqualSingle
NextDiff == CallFieldValueDiff

SpecEqual == InitEqual /\ [][NextEqual]_vars
SpecDiff == InitDiff /\ [][NextDiff]_vars

----------------------------------------------------------------------------
(* Properties of fieldValueDiff and fieldValueEqualSingle *)

\* the types for which the spec promises a diff: sequence-shaped, and employee
DiffTypes == SequenceTypes \cup {S("employee")}

\* some element of the sequence arr is equal to x under fieldValueEqualSingle
HasEqualIn(type, arr, x) ==
    \E i \in 1..Len(arr) : fieldValueEqualSingle(type, arr[i], x)

\* the empty class as the spec lists it: undefined, null, "", NaN, [], {}
InEmptyClass(v) ==
    \/ v \in {Undef, Null, EmptyStr, NaN}
    \/ (v.k = "array" /\ v.elems = <<>>)
    \/ (v.k = "object" /\ v.attrs = NoAttrs)

\* a field value is JSON data: not a Map, Set, WeakMap or WeakSet
IsFieldValue(v) == v.k \notin {"Map", "Set", "WeakMap", "WeakSet"}

AllOfKind(arr, kind) == \A i \in 1..Len(arr) : arr[i].k = kind

\* v has the value shape the data model gives the type (a sequence type
\* also in its single-element form), or is empty
ValidValue(type, v) ==
    \/ InEmptyClass(v)
    \/ CASE type \in StringTypes -> v.k = "string"
         [] type \in NumberTypes -> v.k = "number"
         [] type \in StringSeqTypes ->
              v.k = "string" \/ (v.k = "array" /\ AllOfKind(v.elems, "string"))
         [] type \in RecordSeqTypes \cup {S("employee")} ->
              v.k = "object" \/ (v.k = "array" /\ AllOfKind(v.elems, "object"))
         [] type = S("cascadeDate") ->
              v.k = "object" /\ DOMAIN v.attrs \subseteq {"start", "end"}
         [] type = S("address") -> WellFormedAddress(v)
         [] OTHER -> FALSE

\* C1: for every sequence-shaped type (and employee) and every value a, also
\* one holding empty or falsy elements, fieldValueDiff(t, a, a) has
\* isEqual = true and empty added and removed.
C1_DiffIdempotent ==
    (pc = "diffDone" /\ fieldType \in DiffTypes /\ newVal = oldVal)
        => /\ ret.isEqual
           /\ ret.diff.added = <<>>
           /\ ret.diff.removed = <<>>

\* C2: for type address and two non-empty values, fieldValueEqualSingle
\* returns true exactly when the address strings are identical and the two
\* regionIds sequences have the same length and the same element at every
\* position (a strict prefix is not equal).
C2_AddressEqualIffSameRegions ==
    (/\ pc = "equalDone"
     /\ fieldType = S("address")
     /\ WellFormedAddress(valA) /\ WellFormedAddress(valB))
        => (ret.b <=> /\ valA.attrs["address"] = valB.attrs["address"]
                      /\ valA.attrs["regionIds"].elems = valB.attrs["regionIds"].elems)

C4_Reflexive ==
    (pc \in {"equalDone", "equalThrown"} /\ valA = valB /\ ValidValue(fieldType, valA))
        => (pc = "equalDone" /\ ret.b)

\* C4 witness: a cascadeDate record with start and end compared with itself.
C4_Witness ==
    /\ pc = "equalDone"
    /\ valA = valB
    /\ ~isEmpty(valA)
    /\ ValidValue(fieldType, valA)
    /\ fieldType = S("cascadeDate")
    /\ DOMAIN valA.attrs = {"start", "end"}
    /\ ret.b

\* C5: for every sequence-shaped type and all a, b the added list of
\* fieldValueDiff(t, a, b) is the removed list of fieldValueDiff(t, b, a),
\* and the removed list of the former is the added list of the latter.
C5_AddedRemovedSymmetric ==
    (pc = "diffDone" /\ fieldType \in DiffTypes)
        => LET swapped == fieldValueDiff(fieldType, oldVal, newVal)
           IN /\ ret.diff.added = swapped.diff.removed
              /\ ret.diff.removed = swapped.diff.added

\* C5 witness: a diff with different, non-empty added and removed lists.
C5_Witness ==
    /\ pc = "diffDone"
    /\ fieldType \in DiffTypes
    /\ ret.diff.added # <<>>
    /\ ret.diff.removed # <<>>
    /\ ret.diff.added # ret.diff.removed

\* C6: for every sequence-shaped type (and employee) isEqual is true if and
\* only if both diff.added and diff.removed of the same result are empty.
C6_IsEqualIffNoDiff ==
    (pc = "diffDone" /\ fieldType \in DiffTypes)
        => (ret.isEqual <=> (ret.diff.added = <<>> /\ ret.diff.removed = <<>>))

\* C6 witness: nothing added, something removed, and isEqual false.
C6_Witness ==
    /\ pc = "diffDone"
    /\ fieldType \in DiffTypes
    /\ ret.diff.added = <<>>
    /\ ret.diff.removed # <<>>
    /\ ~ret.isEqual

\* C7: diff.added is exactly the subsequence of the new sequence made of the
\* elements with no equal element in the old sequence, and diff.removed the
\* subsequence of the old sequence made of the elements with no equal element
\* in the new one.
C7_AddedRemovedExact ==
    (pc = "diffDone" /\ fieldType \in DiffTypes)
        => LET new == ToArray(newVal)
               old == ToArray(oldVal)
               NotInOld(x) == ~HasEqualIn(fieldType, old, x)
               NotInNew(x) == ~HasEqualIn(fieldType, new, x)
           IN /\ ret.diff.added = SelectSeq(new, NotInOld)
              /\ ret.diff.removed = SelectSeq(old, NotInNew)

\* C8: the diff is a set-membership test: isEqual is true whenever every
\* element of each sequence has an equal element in the other, whatever the
\* multiplicities and the order.
C8_SetMembership ==
    (pc = "diffDone" /\ fieldType \in DiffTypes)
        => LET new == ToArray(newVal)
               old == ToArray(oldVal)
           IN (/\ \A i \in 1..Len(new) : HasEqualIn(fieldType, old, new[i])
               /\ \A i \in 1..Len(old) : HasEqualIn(fieldType, new, old[i]))
                  => ret.isEqual

\* C9: the result has a diff field if and only if the type is
\* sequence-shaped or employee; otherwise its isEqual is
\* fieldValueEqualSingle(fieldType, newVal, oldVal).
C9_DiffOnlyForSequences ==
    pc = "diffDone"
        => /\ ("diff" \in DOMAIN ret) <=> (fieldType \in DiffTypes)
           /\ ("diff" \notin DOMAIN ret)
                => ret.isEqual = fieldValueEqualSingle(fieldType, newVal, oldVal)

\* C9 witness: an employee diff with added elements, which the "object" data
\* type of a single employee alone would not give.
C9_Witness ==
    /\ pc = "diffDone"
    /\ fieldType = S("employee")
    /\ "diff" \in DOMAIN ret
    /\ ret.diff.added # <<>>

\* C10: in both branches the result carries the old and new values exactly
\* as passed in, before any coercion to a sequence, and the call changes
\* neither input.
C10_RawInputsKept ==
    [][(pc = "callDiff" /\ pc' = "diffDone")
        => /\ ret'.new = newVal /\ ret'.old = oldVal
           /\ newVal' = newVal /\ oldVal' = oldVal]_vars

\* C10 witness: a sequence-branch result whose new value was undefined and
\* whose old value was a single record, both coerced for the reduces.
C10_Witness ==
    /\ pc = "diffDone"
    /\ "diff" \in DOMAIN ret
    /\ newVal = Undef /\ ret.new = Undef
    /\ oldVal.k = "object" /\ ret.old = oldVal
    /\ ret.diff.removed = <<oldVal>>

\* C11: fieldValueEqualSingle has no failure mode: for every type and every
\* pair of present values, records lacking an attribute the rule reads
\* included, it returns a boolean and never throws.
C11_NeverThrows ==
    pc \in {"equalDone", "equalThrown"}
        => (pc = "equalDone" /\ ret.k = "boolean")

\* the attribute of a record, undefined when the value has none of that name
Attribute(v, name) ==
    IF v.k = "object" /\ name \in DOMAIN v.attrs THEN v.attrs[name] ELSE Undef

\* equality by the key attribute of the type; by identity for the types in byIdentity
EqualByKey(type, a, b, byIdentity) ==
    CASE type \in {S("countrySelect"), S("employee"), S("departmentSelect")} ->
            Attribute(a, "value") = Attribute(b, "value")
      [] type \in {S("image"), S("attachment")} ->
            Attribute(a, "url") = Attribute(b, "url")
      [] type = S("associationForm") ->
            Attribute(a, "instanceId") = Attribute(b, "instanceId")
      [] type = S("cascadeDate") ->
            /\ Attribute(a, "start") = Attribute(b, "start")
            /\ Attribute(a, "end") = Attribute(b, "end")
      [] type \in byIdentity -> a = b
      [] OTHER -> TRUE

\* the types the claim does not name
UnnamedTypes ==
    FieldTypes \ {S("countrySelect"), S("employee"), S("departmentSelect"), S("image"),
                  S("attachment"), S("associationForm"), S("cascadeDate")}

\* C12 as stated: for two non-empty values equality is decided by the key
\* attribute (value; url; instanceId; start and end), and by identity of the
\* raw value for every other type, address included.
C12_KeyAttributeOnlyAsStated ==
    (pc = "equalDone" /\ ~isEmpty(valA) /\ ~isEmpty(valB))
        => (ret.b <=> EqualByKey(fieldType, valA, valB, UnnamedTypes))

\* C12 amended: as C12, with identity of the raw value for every other type
\* except address, whose rule reads the address and regionIds attributes.
C12_KeyAttributeOnly ==
    (pc = "equalDone" /\ ~isEmpty(valA) /\ ~isEmpty(valB) /\ fieldType # S("address"))
        => (ret.b <=> EqualByKey(fieldType, valA, valB, UnnamedTypes \ {S("address")}))

\* C12 witness: two employee records that differ only in the name attribute
\* are equal.
C12_Witness ==
    /\ pc = "equalDone"
    /\ fieldType = S("employee")
    /\ valA.k = "object" /\ valB.k = "object"
    /\ DOMAIN valA.attrs = {"value"}
    /\ DOMAIN valB.attrs = {"value", "name"}
    /\ ret.b

----------------------------------------------------------------------------
(* FieldChangeLogger *)

\* a Map keeps its entries in insertion order: a sequence of [key, value]
MapHas(map, key) == \E i \in 1..Len(map) : map[i].key = key

MapGet(map, key) == map[CHOOSE i \in 1..Len(map) : map[i].key = key].value

\* map.set(key, value): an existing key keeps its place
MapSet(map, key, value) ==
    IF MapHas(map, key)
    THEN [i \in 1..Len(map) |->
            IF map[i].key = key THEN [key |-> key, value |-> value] ELSE map[i]]
    ELSE Append(map, [key |-> key, value |-> value])

\* a plausible slip: the entry of a field that reverted is left in the map
MapDeleteNothing(map, key) == map

\* map.delete(key)
MapDelete(map, key) ==
    LET Other(e) == e.key # key IN SelectSeq(map, Other)

\* map.clear()
MapClear(map) == <<>>

\* the fields a form reports changes of
LoggerFieldIds ==
    {Str(<<"checkbox", "Field", "_", "k1">>), Str(<<"text", "Field", "_", "k2">>)}

LoggerFieldNames == {"label1", "label2"}

\* the values a field of the form takes
LoggerValues(id) ==
    IF getFieldTypeById(id) = S("checkbox")
    THEN {Undef, Arr(<<S("a")>>, 1), Arr(<<S("a"), S("b")>>, 1), Arr(<<EmptyStr>>, 1)}
    ELSE {Undef, EmptyStr, S("a"), S("b")}

\* new FieldChangeLogger(oldValueFn, logFormatter): without a function
\* oldValueFn, getOldValue always returns undefined
InitLogger ==
    /\ pc = "logger"
    /\ \E provided \in BOOLEAN :
         \E oldValueFn \in [LoggerFieldIds -> UNION {LoggerValues(id) : id \in LoggerFieldIds}] :
            /\ \A id \in LoggerFieldIds : oldValueFn[id] \in LoggerValues(id)
            /\ logger = [getOldValue |-> IF provided THEN oldValueFn
                                         ELSE [id \in LoggerFieldIds |-> Undef],
                         logMap |-> <<>>]
    /\ loggerTrace = [lastChange |-> [id \in LoggerFieldIds |-> NoRet],
                      callback |-> "none"]
    /\ FieldIdle /\ RetryIdle /\ RunnerIdle /\ PageIdle /\ DataSourceIdle

\* change(fieldId, fieldName, newValue, callback); an exception of
\* fieldValueDiff leaves the logger as it was
LoggerChange(id, name, value, callbackIsFunction) ==
    /\ pc = "logger"
    /\ LET old == logger.getOldValue[id]
           type == getFieldTypeById(id)
       IN IF fieldValueDiffThrows(type, value, old)
          THEN UNCHANGED <<logger, loggerTrace>>
          ELSE LET diffResult == fieldValueDiff(type, value, old)
               IN /\ logger' =
                       [logger EXCEPT !.logMap =
                           IF ~diffResult.isEqual
                           THEN MapSet(@, id, [fieldId |-> id, fieldName |-> name,
                                               diffResult |-> diffResult])
                           ELSE MapDelete(@, id)]
                  /\ loggerTrace' =
                       [lastChange |-> [loggerTrace.lastChange EXCEPT ![id] = diffResult],
                        callback |-> IF callbackIsFunction THEN "called" ELSE "skipped"]
    /\ UNCHANGED <<pc, rt, runner, page, ds>>
    /\ UNCHANGED fieldVars

\* clear()
LoggerClear ==
    /\ pc = "logger"
    /\ logger' = [logger EXCEPT !.logMap = MapClear(@)]
    /\ loggerTrace' = [lastChange |-> [id \in LoggerFieldIds |-> NoRet], callback |-> "none"]
    /\ UNCHANGED <<pc, rt, runner, page, ds>>
    /\ UNCHANGED fieldVars

NextLogger ==
    \/ \E id \in LoggerFieldIds, name \in LoggerFieldNames, callbackIsFunction \in BOOLEAN :
         \E value \in LoggerValues(id) : LoggerChange(id, name, value, callbackIsFunction)
    \/ LoggerClear

SpecLogger == InitLogger /\ [][NextLogger]_vars

\* C13: after any sequence of change and clear calls the log map holds an
\* entry for a field id if and only if the latest change call for that id
\* since the last clear produced a diff with isEqual = false, and the entry
\* carries the diff result of that call; an equal diff removes the entry and
\* clear removes every entry.
C13_LogMapIsLatestUnequalDiff ==
    pc = "logger"
        => /\ \A id \in LoggerFieldIds :
                LET last == loggerTrace.lastChange[id]
                IN /\ MapHas(logger.logMap, id) <=> (last # NoRet /\ ~last.isEqual)
                   /\ MapHas(logger.logMap, id)
                        => /\ MapGet(logger.logMap, id).diffResult = last
                           /\ MapGet(logger.logMap, id).fieldId = id
           /\ \A i, j \in 1..Len(logger.logMap) :
                logger.logMap[i].key = logger.logMap[j].key => i = j

\* C13 witness: one field logged, the other reverted to its old value by a
\* later change call, which removed its entry.
C13_Witness ==
    /\ pc = "logger"
    /\ Len(logger.logMap) = 1
    /\ \E id \in LoggerFieldIds :
         /\ ~MapHas(logger.logMap, id)
         /\ loggerTrace.lastChange[id] # NoRet
         /\ loggerTrace.lastChange[id].isEqual
         /\ loggerTrace.lastChange[id].new # Undef

----------------------------------------------------------------------------
(* utils.js: retry *)

\* retryTimes = 3, retryDelay = 300
DefaultRetryTimes == 3
DefaultRetryDelay == 300

\* a default parameter value applies when the argument is undefined
DefaultParam(arg, default) == IF arg = Undef THEN default ELSE arg.n

\* what one invocation of callable does: it returns a plain value, throws,
\* returns a Promise that is fulfilled or rejected, or returns a thenable
\* that is no Promise
CallOutcomes ==
    {"value", "throw", "fulfilled", "rejected", "thenableFulfilled", "thenableRejected"}

RetryTimesArgs == {Undef} \cup {Num(n) : n \in (0 - 1)..MaxRetryTimes}
RetryDelayArgs == {Undef, Num(500)}
RetryArgs == {<<>>, <<S("a")>>}

CallEvent(n, args, outcome) == [e |-> "call", n |-> n, args |-> args, outcome |-> outcome]
SleepEvent(ms) == [e |-> "sleep", ms |-> ms]

IsCall(ev) == ev.e = "call"
IsSleep(ev) == ev.e = "sleep"
Calls(events) == SelectSeq(events, IsCall)
Sleeps(events) == SelectSeq(events, IsSleep)

\* retry(callable, retryTimes, retryDelay, ...args) is entered
InitRetry ==
    /\ pc = "retryLoop"
    /\ \E timesArg \in RetryTimesArgs, delayArg \in RetryDelayArgs, args \in RetryArgs :
         rt = [retryTimesArg |-> timesArg,
               retryTimes |-> DefaultParam(timesArg, DefaultRetryTimes),
               retryDelay |-> DefaultParam(delayArg, DefaultRetryDelay),
               args |-> args,
               times |-> 0,
               result |-> Undef,
               error |-> Undef,
               events |-> <<>>]
    /\ FieldIdle /\ LoggerIdle /\ RunnerIdle /\ PageIdle /\ DataSourceIdle

\* a plausible slip: one attempt too few
RetryContinuesStrict(times, retryTimes) == times < retryTimes

\* while (times <= retryTimes)
RetryContinues(times, retryTimes) == times <= retryTimes

\* a plausible slip: a delay before the first attempt too
RetryNeedsSleepAlways(times) == times >= 0

\* if (times > 0)
RetryNeedsSleep(times) == times > 0

\* a plausible slip: the result is kept but not returned, and the loop goes on
RetryAfterSuccessLoops == "retryLoop"

\* return result
RetryAfterSuccess == "retryResolved"

\* the loop test, then either the sleep is started, callable is about to be
\* invoked, or the loop is left and the final Error is thrown
RetryLoopTest ==
    /\ pc = "retryLoop"
    /\ IF RetryContinues(rt.times, rt.retryTimes)
       THEN IF RetryNeedsSleep(rt.times)
            THEN /\ pc' = "retrySleeping"
                 /\ rt' = [rt EXCEPT !.events = Append(@, SleepEvent(rt.retryDelay))]
            ELSE pc' = "retryCalling" /\ UNCHANGED rt
       ELSE pc' = "retryRejected" /\ UNCHANGED rt
    /\ UNCHANGED <<logger, loggerTrace, runner, page, ds>>
    /\ UNCHANGED fieldVars

\* the timer of sleep(retryDelay) fires
RetryWake ==
    /\ pc = "retrySleeping"
    /\ pc' = "retryCalling"
    /\ UNCHANGED <<rt, logger, loggerTrace, runner, page, ds>>
    /\ UNCHANGED fieldVars

\* the rejection or exception of invocation n is caught: times += 1; error = e
RetryCaught(frame, n) ==
    [frame EXCEPT !.times = @ + 1, !.error = [call |-> n]]

\* result = callable(...args): a thrown exception is caught; a Promise is
\* awaited; any other result is returned, and a thenable returned from the
\* async function settles the promise of retry
RetryCall(outcome) ==
    /\ pc = "retryCalling"
    /\ LET n == Len(Calls(rt.events)) + 1
           called == [rt EXCEPT !.events = Append(@, CallEvent(n, rt.args, outcome))]
       IN CASE outcome = "throw" ->
                 pc' = "retryLoop" /\ rt' = RetryCaught(called, n)
            [] outcome \in {"fulfilled", "rejected"} ->
                 pc' = "retryAwaiting" /\ rt' = [called EXCEPT !.result = [call |-> n]]
            [] outcome \in {"value", "thenableFulfilled"} ->
                 pc' = RetryAfterSuccess /\ rt' = [called EXCEPT !.result = [call |-> n]]
            [] outcome = "thenableRejected" ->
                 pc' = "retryRejectedByResult" /\ rt' = [called EXCEPT !.result = [call |-> n]]
    /\ UNCHANGED <<logger, loggerTrace, runner, page, ds>>
    /\ UNCHANGED fieldVars

\* await result: the Promise of the latest invocation settles
RetrySettle ==
    /\ pc = "retryAwaiting"
    /\ LET n == Len(Calls(rt.events))
           outcome == Calls(rt.events)[n].outcome
       IN IF outcome = "fulfilled"
          THEN pc' = RetryAfterSuccess /\ UNCHANGED rt
          ELSE pc' = "retryLoop" /\ rt' = RetryCaught(rt, n)
    /\ UNCHANGED <<logger, loggerTrace, runner, page, ds>>
    /\ UNCHANGED fieldVars

NextRetry ==
    \/ RetryLoopTest
    \/ RetryWake
    \/ \E outcome \in CallOutcomes : RetryCall(outcome)
    \/ RetrySettle

SpecRetry == InitRetry /\ [][NextRetry]_vars

\* an invocation failed: it threw or returned a Promise that is rejected
CallFailed(ev) == ev.outcome \in {"throw", "rejected"}

\* an invocation succeeded: it returned a value, or a promise that is fulfilled
CallSucceeded(ev) == ev.outcome \in {"value", "fulfilled", "thenableFulfilled"}

AllCallsFailed == \A i \in 1..Len(Calls(rt.events)) : CallFailed(Calls(rt.events)[i])

RetryEnded == pc \in {"retryResolved", "retryRejected", "retryRejectedByResult"}

\* C14: when callable fails on every invocation and retryTimes >= 0, retry
\* invokes callable exactly retryTimes + 1 times (4 with the default) and then
\* rejects.
C14_AllFailedCallsRetryTimesPlusOne ==
    (rt # Unused /\ rt.retryTimes >= 0 /\ AllCallsFailed)
        => LET n == Len(Calls(rt.events))
           IN /\ n <= rt.retryTimes + 1
              /\ pc = "retryRejected" => n = rt.retryTimes + 1
              /\ (pc = "retryRejected" /\ rt.retryTimesArg = Undef) => n = 4
              /\ rt.times = rt.retryTimes + 1 => pc \in {"retryLoop", "retryRejected"}
              /\ RetryEnded => pc = "retryRejected"

\* C14 witness: the default retryTimes, four failed invocations (thrown and
\* rejected), and retry rejected.
C14_Witness ==
    /\ pc = "retryRejected"
    /\ rt.retryTimesArg = Undef
    /\ Len(Calls(rt.events)) = 4
    /\ Calls(rt.events)[1].outcome = "throw"
    /\ Calls(rt.events)[4].outcome = "rejected"

\* C15: retry waits retryDelay before every invocation except the first and
\* never after the final failed invocation: when all retryTimes + 1
\* invocations fail there are exactly retryTimes waits, each between two
\* consecutive invocations.
C15_WaitsOnlyBetweenCalls ==
    rt # Unused
        => LET ev == rt.events
           IN /\ \A i \in 1..Len(ev) :
                   /\ IsSleep(ev[i])
                        => /\ i > 1 /\ IsCall(ev[i - 1]) /\ CallFailed(ev[i - 1])
                           /\ ev[i].ms = rt.retryDelay
                           /\ i < Len(ev) => IsCall(ev[i + 1])
                           /\ i = Len(ev) => pc \in {"retrySleeping", "retryCalling"}
                   /\ IsCall(ev[i]) => (i = 1 \/ IsSleep(ev[i - 1]))
              /\ (pc = "retryRejected" /\ rt.retryTimes >= 0)
                   => /\ Len(Sleeps(ev)) = rt.retryTimes
                      /\ Len(Calls(ev)) = rt.retryTimes + 1

\* C15 witness: three failed invocations with two waits of 500 ms between them.
C15_Witness ==
    /\ pc = "retryRejected"
    /\ rt.retryDelay = 500
    /\ Len(Calls(rt.events)) = 3
    /\ Len(Sleeps(rt.events)) = 2

\* C16: if callable first succeeds on its k-th invocation, k <= retryTimes + 1,
\* retry resolves with the result of that invocation and callable is invoked
\* exactly k times: no invocation and no wait follows the first success.
C16_StopsAtFirstSuccess ==
    rt # Unused
        => LET ev == rt.events
               calls == Calls(ev)
               k == Len(calls)
           IN /\ \A i \in 1..Len(ev) :
                   (IsCall(ev[i]) /\ CallSucceeded(ev[i]))
                        => /\ i = Len(ev)
                           /\ ev[i].n <= rt.retryTimes + 1
                           /\ pc = (IF ev[i].outcome = "fulfilled" /\ pc # "retryResolved"
                                    THEN "retryAwaiting" ELSE "retryResolved")
              /\ pc = "retryResolved"
                   => /\ k >= 1 /\ CallSucceeded(calls[k])
                      /\ \A j \in 1..(k - 1) : CallFailed(calls[j])
                      /\ rt.result = [call |-> k]
                      /\ ev[Len(ev)] = calls[k]

\* C16 witness: two failures, then a fulfilled third invocation whose result
\* retry resolved with.
C16_Witness ==
    /\ pc = "retryResolved"
    /\ Len(Calls(rt.events)) = 3
    /\ Calls(rt.events)[3].outcome = "fulfilled"
    /\ rt.result = [call |-> 3]

-----------------------------------------------------------------------------
(* BatchTaskRunner.js *)

\* a task: a function returning a Promise; tasks differ by id
Task(id) == [k |-> "function", id |-> id]

\* the values a function task provider ends with
FalsyValues == {Undef, Null, Num(0)}

\* the task a provider has after its end: what a function provider would
\* return if it were called again, or what a generator returns when it is done
LateTask == Task(MaxTasks + 1)

\* this._taskProvider() of the n-th call, or this._taskProvider.next().value of
\* the n-th call: r.count tasks, then r.last, then a late task (function) or
\* undefined (a generator that is done)
ProviderValue(r, n) ==
    IF n <= r.count THEN Task(n)
    ELSE IF n = r.count + 1 THEN r.last
    ELSE IF r.providerType = "function" THEN LateTask ELSE Undef

GetTaskEvent(value) == [e |-> "getTask", value |-> value]
BeforeBatchEvent(b) == [e |-> "beforeBatchCb", batch |-> b]
StartEvent(task, b) == [e |-> "start", task |-> task, batch |-> b]
SettleEvent(task, b, status) == [e |-> "settle", task |-> task, batch |-> b, status |-> status]
AfterBatchEvent(b, result) == [e |-> "afterBatchCb", batch |-> b, result |-> result]

\* _getTask(): one call of the provider; done is not read
GetTask(r) ==
    LET value == ProviderValue(r, r.calls + 1)
    IN [r EXCEPT !.calls = @ + 1, !.task = value,
                 !.events = Append(@, GetTaskEvent(value))]

\* new BatchTaskRunner(taskProvider, batchSize, options), start() not yet called
InitRunner ==
    /\ pc = "runnerStart"
    /\ \E providerType \in {"function", "generator"}, count \in 0..MaxTasks,
          batchSizeArg \in {Undef} \cup {Num(n) : n \in 0..MaxBatchSize} :
          \E last \in (IF providerType = "function" THEN FalsyValues
                       ELSE {Undef, LateTask}) :
              runner = [providerType |-> providerType, count |-> count, last |-> last,
                        batchSizeArg |-> batchSizeArg,
                        batchSize |-> IF Truthy(batchSizeArg) THEN batchSizeArg.n ELSE 1,
                        calls |-> 0, task |-> Null, tasks |-> <<>>,
                        running |-> <<>>, resume |-> "", batches |-> 0,
                        events |-> <<>>]
    /\ FieldIdle /\ LoggerIdle /\ RetryIdle /\ PageIdle /\ DataSourceIdle

RunnerFrame == UNCHANGED <<fieldType, valA, valB, newVal, oldVal, ret, logger,
                           loggerTrace, rt, page, ds>>

\* start(): let task = this._getTask()
RunnerStart ==
    /\ pc = "runnerStart"
    /\ runner' = GetTask(runner)
    /\ pc' = "runnerLoop"
    /\ RunnerFrame

BatchIsFullNever(tasks, batchSize) == FALSE

\* tasks.length === this._batchSize
BatchIsFull(tasks, batchSize) == Len(tasks) = batchSize

\* while (task) { tasks.push(task); if (tasks.length === this._batchSize) ... }
RunnerLoopTest ==
    /\ pc = "runnerLoop"
    /\ IF Truthy(runner.task)
       THEN LET pushed == Append(runner.tasks, runner.task)
            IN /\ runner' = [runner EXCEPT !.tasks = pushed, !.resume = "runnerNext"]
               /\ pc' = IF BatchIsFull(pushed, runner.batchSize)
                        THEN "runnerBatch" ELSE "runnerNext"
       ELSE /\ pc' = "runnerDone"
            /\ UNCHANGED runner
    /\ RunnerFrame

FinalBatchNever(task, tasks) == FALSE

\* !task && tasks.length
FinalBatchNeeded(task, tasks) == ~Truthy(task) /\ Len(tasks) # 0

\* task = this._getTask(); if (!task && tasks.length) ...
RunnerGetNext ==
    /\ pc = "runnerNext"
    /\ LET got == GetTask(runner)
       IN /\ runner' = [got EXCEPT !.resume = "runnerLoop"]
          /\ pc' = IF FinalBatchNeeded(got.task, got.tasks)
                   THEN "runnerBatch" ELSE "runnerLoop"
    /\ RunnerFrame

\* _doBatchTask up to its await: beforeBatchCb(), then tasks.map starts every
\* task in order
RunnerBeginBatch ==
    /\ pc = "runnerBatch"
    /\ LET b == runner.batches + 1
           starts == [i \in 1..Len(runner.tasks) |-> StartEvent(runner.tasks[i], b)]
       IN runner' = [runner EXCEPT !.batches = b,
                                   !.running = [i \in 1..Len(runner.tasks) |-> "pending"],
                                   !.events = (@ \o <<BeforeBatchEvent(b)>>) \o starts]
    /\ pc' = "runnerAwait"
    /\ RunnerFrame

\* the promise of one started task settles
RunnerSettle(i, status) ==
    /\ pc = "runnerAwait"
    /\ i \in 1..Len(runner.running)
    /\ runner.running[i] = "pending"
    /\ runner' = [runner EXCEPT !.running[i] = status,
                                !.events = Append(@, SettleEvent(runner.tasks[i],
                                                                 runner.batches, status))]
    /\ pc' = pc
    /\ RunnerFrame

AllSettledWhenAny(running) == \E i \in 1..Len(running) : running[i] # "pending"

\* Promise.allSettled: fulfilled once every promise has settled
AllSettled(running) == \A i \in 1..Len(running) : running[i] # "pending"

BatchResultFulfilledOnly(tasks, running) ==
    SelectSeq([i \in 1..Len(tasks) |-> [status |-> running[i], task |-> tasks[i]]],
              LAMBDA entry : entry.status = "fulfilled")

\* the value Promise.allSettled fulfils with: one entry per task, in task order
BatchResult(tasks, running) ==
    [i \in 1..Len(tasks) |-> [status |-> running[i], task |-> tasks[i]]]

\* _doBatchTask after its await: afterBatchCb(result); then tasks.length = 0
RunnerEndBatch ==
    /\ pc = "runnerAwait"
    /\ AllSettled(runner.running)
    /\ LET result == BatchResult(runner.tasks, runner.running)
       IN runner' = [runner EXCEPT !.tasks = <<>>, !.running = <<>>,
                                   !.events = Append(@, AfterBatchEvent(runner.batches,
                                                                        result))]
    /\ pc' = runner.resume
    /\ RunnerFrame

NextRunner ==
    \/ RunnerStart
    \/ RunnerLoopTest
    \/ RunnerGetNext
    \/ RunnerBeginBatch
    \/ \E i \in 1..MaxBatchSize + 1, status \in {"fulfilled", "rejected"} :
           RunnerSettle(i, status)
    \/ RunnerEndBatch

SpecRunner == InitRunner /\ [][NextRunner]_vars

\* every started task's promise settles, and the event loop runs what is ready
SpecRunnerLive == SpecRunner /\ WF_vars(NextRunner)

EventsOf(kind) == SelectSeq(runner.events, LAMBDA ev : ev.e = kind)

\* the tasks started so far, in the order they were started
StartedTasks == [i \in 1..Len(EventsOf("start")) |-> EventsOf("start")[i].task]

\* the tasks the provider hands out before it ends, in order
ProvidedTasks == [i \in 1..runner.count |-> Task(i)]

IsPrefix(s, t) == Len(s) <= Len(t) /\ \A i \in 1..Len(s) : s[i] = t[i]

\* what holds of a function provider at every moment of start()
C17_FunctionProviderSafe ==
    (runner # Unused /\ runner.providerType = "function")
        => /\ runner.calls <= runner.count + 1
           /\ IsPrefix(StartedTasks, ProvidedTasks)
           /\ pc = "runnerDone"
                => /\ StartedTasks = ProvidedTasks
                   /\ Len(EventsOf("settle")) = runner.count
                   /\ runner.calls = runner.count + 1
                   /\ runner.tasks = <<>>
                   /\ Len(EventsOf("afterBatchCb")) = runner.batches

\* C17: with a function provider that returns a falsy value after finitely
\* many tasks, start() finishes after the last batch: every task returned
\* before the first falsy return is executed exactly once, and the provider is
\* not called again after its falsy return.
C17_FunctionProviderRunsAllAndEnds ==
    /\ [] C17_FunctionProviderSafe
    /\ (runner # Unused /\ runner.providerType = "function") ~> (pc = "runnerDone")

\* C17 witness: three tasks in batches of two, the last batch holding one
\* task, and start() finished after one falsy return.
C17_Witness ==
    /\ pc = "runnerDone"
    /\ runner.providerType = "function"
    /\ runner.count = 3 /\ runner.batchSize = 2
    /\ runner.batches = 2
    /\ runner.calls = 4

\* C18: with a generator provider, start() executes exactly the yielded
\* values, each once and in yield order, and ends after the last batch; no
\* other value, such as the generator's return value, is executed as a task.
C18_GeneratorRunsExactlyYielded ==
    (runner # Unused /\ runner.providerType = "generator")
        => /\ IsPrefix(StartedTasks, ProvidedTasks)
           /\ pc = "runnerDone" => StartedTasks = ProvidedTasks

\* C19: beforeBatchCb of a batch is called before any of its tasks is
\* started, afterBatchCb only after every task of the batch has settled, and
\* neither beforeBatchCb nor a task of the next batch is started before
\* afterBatchCb of the current batch has been called.
C19_CallbacksBracketBatch ==
    runner # Unused
        => LET ev == runner.events
               Before(i, kind, b) == \E j \in 1..(i - 1) : ev[j].e = kind /\ ev[j].batch = b
           IN \A i \in 1..Len(ev) :
                /\ ev[i].e = "start"
                     => /\ Before(i, "beforeBatchCb", ev[i].batch)
                        /\ ev[i].batch > 1 => Before(i, "afterBatchCb", ev[i].batch - 1)
                /\ ev[i].e = "beforeBatchCb"
                     => (ev[i].batch > 1 => Before(i, "afterBatchCb", ev[i].batch - 1))
                /\ ev[i].e = "afterBatchCb"
                     => /\ \A j \in 1..Len(ev) :
                             (ev[j].e = "start" /\ ev[j].batch = ev[i].batch)
                                => /\ j < i
                                   /\ \E m \in (j + 1)..(i - 1) :
                                         /\ ev[m].e = "settle"
                                         /\ ev[m].task = ev[j].task
                                         /\ ev[m].batch = ev[i].batch
                        /\ \A j \in (i + 1)..Len(ev) :
                             ev[j].e \in {"start", "settle"} => ev[j].batch # ev[i].batch

\* C19 witness: two batches have run; in the first the second task settled
\* before the first one.
C19_Witness ==
    /\ pc = "runnerDone"
    /\ runner.batches = 2
    /\ \E i, j \in 1..Len(runner.events) :
          /\ i < j
          /\ runner.events[i] = SettleEvent(Task(2), 1, "rejected")
          /\ runner.events[j] = SettleEvent(Task(1), 1, "fulfilled")

-----------------------------------------------------------------------------
(* ui.js: hijackSubmit *)

\* n + "px"
Px(n) == Str(<<n, "px">>)

\* the context passed to hijackSubmit: the page's this with or without an
\* exported beforeBeforeSubmit, or no object at all
Contexts == {"withBeforeBeforeSubmit", "withoutBeforeBeforeSubmit", "undefined"}

\* offsetTop / offsetLeft of the submit button
ButtonOffsets == {0, 8}

MaskClickEvent(m) == [e |-> "mask.onclick", mask |-> m]
SubmitClickEvent(m) == [e |-> "submitBtn.click", mask |-> m]
ConsoleLogEvent(m) == [e |-> "console.log", mask |-> m]
HookCallEvent(m) == [e |-> "beforeBeforeSubmit called", mask |-> m]
HookReturnEvent(m) == [e |-> "beforeBeforeSubmit returned", mask |-> m]

\* a page with or without a .deep-form-submit button, before hijackSubmit
InitPage ==
    /\ pc = "page"
    /\ \E hasSubmitBtn \in BOOLEAN, context \in Contexts,
          offsetTop \in ButtonOffsets, offsetLeft \in ButtonOffsets :
          page = [hasSubmitBtn |-> hasSubmitBtn, context |-> context,
                  submitBtn |-> [offsetTop |-> offsetTop, offsetLeft |-> offsetLeft,
                                 width |-> 80, height |-> 32],
                  wrapperPosition |-> EmptyStr, masks |-> <<>>,
                  hijacks |-> 0, clicks |-> 0, events |-> <<>>]
    /\ FieldIdle /\ LoggerIdle /\ RetryIdle /\ RunnerIdle /\ DataSourceIdle

PageFrame == UNCHANGED <<pc, fieldType, valA, valB, newVal, oldVal, ret, logger,
                         loggerTrace, rt, runner, ds>>

\* hijackSubmit(context)
HijackSubmit ==
    /\ pc = "page"
    /\ page.hijacks < MaxHijacks
    /\ IF ~page.hasSubmitBtn
       THEN page' = [page EXCEPT !.hijacks = @ + 1]
       ELSE LET btn == page.submitBtn
                mask == [position |-> S("absolute"), top |-> Px(btn.offsetTop),
                         left |-> Px(btn.offsetLeft), display |-> S("inline-block"),
                         width |-> Px(btn.width), height |-> Px(btn.height)]
            IN page' = [page EXCEPT !.hijacks = @ + 1,
                                    !.wrapperPosition = S("relative"),
                                    !.masks = Append(@, mask)]
    /\ PageFrame

\* what the statement context.beforeBeforeSubmit; does on a click of mask m:
\* it reads the property and calls nothing
HookStatement(m) == <<>>

\* mask.onclick of the m-th mask
MaskClick(m) ==
    /\ pc = "page"
    /\ page.clicks < MaxClicks
    /\ m \in 1..Len(page.masks)
    /\ page' = [page EXCEPT
                  !.clicks = @ + 1,
                  !.events = (@ \o <<MaskClickEvent(m)>>) \o
                             (IF page.context = "undefined"
                              THEN <<ConsoleLogEvent(m)>>
                              ELSE HookStatement(m) \o <<SubmitClickEvent(m)>>)]
    /\ PageFrame

NextPage ==
    \/ HijackSubmit
    \/ \E m \in 1..MaxHijacks : MaskClick(m)

SpecPage == InitPage /\ [][NextPage]_vars

\* C20: when the mask is clicked, the context's exported beforeBeforeSubmit is
\* called, and the submit button's click is simulated only after that method
\* has finished.
C20_HookRunsBeforeSubmitClick ==
    (page # Unused /\ page.context = "withBeforeBeforeSubmit")
        => LET ev == page.events
           IN \A i \in 1..Len(ev) :
                /\ ev[i].e = "mask.onclick"
                     => i < Len(ev) /\ ev[i + 1] = HookCallEvent(ev[i].mask)
                /\ ev[i].e = "submitBtn.click"
                     => i > 1 /\ ev[i - 1] = HookReturnEvent(ev[i].mask)

-----------------------------------------------------------------------------
(* fieldValueEqualSingle: symmetry *)

\* C25: for every field type and all values a, b for which both calls return,
\* fieldValueEqualSingle(t, a, b) equals fieldValueEqualSingle(t, b, a).
C25_EqualSingleSymmetric ==
    (pc = "equalDone" /\ ~fieldValueEqualSingleThrows(fieldType, valB, valA))
        => ret.b = fieldValueEqualSingle(fieldType, valB, valA)

-----------------------------------------------------------------------------
(* BatchTaskRunner: batch sizes and rejected tasks *)

\* the tasks started in batch b, in the order they were started
BatchTasks(b) ==
    LET starts == SelectSeq(runner.events, LAMBDA ev : ev.e = "start" /\ ev.batch = b)
    IN [i \in 1..Len(starts) |-> starts[i].task]

\* the number of tasks started and not yet settled
Unsettled == Len(EventsOf("start")) - Len(EventsOf("settle"))

\* the truthy values the provider has handed out so far, in order
HandedOut ==
    LET got == SelectSeq(EventsOf("getTask"), LAMBDA ev : Truthy(ev.value))
    IN [i \in 1..Len(got) |-> got[i].value]

\* C27: for a positive integer batchSize every batch holds at least one and at
\* most batchSize tasks, every batch but the last exactly batchSize, so never
\* more than batchSize tasks are started and unsettled; with no task provided
\* neither callback is ever called.
C27_BatchSizesBounded ==
    (runner # Unused /\ runner.batchSizeArg # Undef /\ runner.batchSizeArg.n >= 1)
        => /\ \A b \in 1..runner.batches :
                /\ Len(BatchTasks(b)) >= 1
                /\ Len(BatchTasks(b)) <= runner.batchSizeArg.n
                /\ b < runner.batches => Len(BatchTasks(b)) = runner.batchSizeArg.n
           /\ Unsettled <= runner.batchSizeArg.n
           /\ (pc # "runnerStart" /\ HandedOut = <<>>)
                => /\ EventsOf("beforeBatchCb") = <<>>
                   /\ EventsOf("afterBatchCb") = <<>>
           /\ (pc = "runnerDone" /\ HandedOut = <<>>) => runner.calls = 1

\* C27 witness: a full first batch of two tasks, both started and unsettled,
\* with a third task still to come.
C27_Witness ==
    /\ pc = "runnerAwait"
    /\ runner.batchSizeArg = Num(2)
    /\ runner.count = 3
    /\ runner.batches = 1
    /\ Unsettled = 2

\* a task's promise has been rejected
SomeTaskRejected == \E i \in 1..Len(runner.events) :
    runner.events[i].e = "settle" /\ runner.events[i].status = "rejected"

C28_RejectionSafe ==
    (runner # Unused /\ SomeTaskRejected)
        => /\ IsPrefix(StartedTasks, HandedOut)
           /\ pc = "runnerDone" => StartedTasks = HandedOut
           /\ \A i \in 1..Len(runner.events) :
                runner.events[i].e = "afterBatchCb"
                    => LET result == runner.events[i].result
                           b == runner.events[i].batch
                       IN /\ Len(result) = Len(BatchTasks(b))
                          /\ \A j \in 1..Len(result) :
                                /\ result[j].task = BatchTasks(b)[j]
                                /\ \E m \in 1..(i - 1) :
                                      runner.events[m] = SettleEvent(result[j].task, b,
                                                                     result[j].status)

\* C28: a task whose promise rejects does not stop the runner: the other tasks
\* of its batch and all later batches are still executed, start() still
\* resolves, and afterBatchCb receives one settled result per task of the
\* batch, in task order.
C28_RejectionDoesNotStop ==
    /\ [] C28_RejectionSafe
    /\ (runner # Unused /\ SomeTaskRejected) ~> (pc = "runnerDone")

\* C28 witness: the first task of the first batch was rejected, its batch mate
\* fulfilled, afterBatchCb received both in task order, and a second batch ran.
C28_Witness ==
    /\ pc = "runnerDone"
    /\ runner.batches = 2
    /\ \E i \in 1..Len(runner.events) :
          runner.events[i] = AfterBatchEvent(1, <<[status |-> "rejected", task |-> Task(1)],
                                                  [status |-> "fulfilled", task |-> Task(2)]>>)
    /\ Len(EventsOf("settle")) = 3

-----------------------------------------------------------------------------
(* utils.js (data source): fetchSubformDatasAll, searchFormDataIdsAll *)

\* const pageSize = 50 (fetchSubformDatasAll), const pageSize = 100
\* (searchFormDataIdsAll, searchFormDatasAll)
SubformPageSize == 50
SearchPageSize == 100

PageSizeOf(fn) == IF fn = "fetchSubformDatasAll" THEN SubformPageSize ELSE SearchPageSize

\* JSON.stringify(value): a string that holds the encoded value
JsonStringify(value) == Str(<<"JSON", value>>)

\* how many times a value has been JSON-encoded
RECURSIVE EncodeDepth(_)
EncodeDepth(value) ==
    IF value.k = "string" /\ Len(value.s) = 2 /\ value.s[1] = "JSON"
    THEN 1 + EncodeDepth(value.s[2])
    ELSE 0

\* { ...base, ...options }: the attributes of options override those of base;
\* spreading undefined adds nothing
Spread(base, options) ==
    IF options.k # "object" THEN base
    ELSE [key \in DOMAIN base \cup DOMAIN options.attrs |->
             IF key \in DOMAIN options.attrs THEN options.attrs[key] ELSE base[key]]

\* if (options && options.dynamicOrder)
\*   options.dynamicOrder = JSON.stringify(options.dynamicOrder || {})
\* the object the caller passed in is written to
EncodeDynamicOrder(options) ==
    IF Truthy(options) /\ Truthy(GetProp(options, "dynamicOrder"))
    THEN [options EXCEPT !.attrs["dynamicOrder"] = JsonStringify(@)]
    ELSE options

\* the lengths a page that ends the paging may have
LastPageLengths(size) == {0, 1, size - 1, size + 1}

\* the data of page p: d.full pages of the page size, then one page of
\* d.lastLen items, then empty pages
BackendPage(d, p) ==
    LET len == IF p <= d.full THEN PageSizeOf(d.fn)
               ELSE IF p = d.full + 1 THEN d.lastLen ELSE 0
    IN [i \in 1..len |-> [page |-> p, index |-> i]]

\* the options objects a caller passes
OrderObject == Obj([numberField_k3 |-> S("+")], 1)
OptionsArgs == {Undef,
                Obj([instanceStatus |-> S("COMPLETED")], 1),
                Obj([dynamicOrder |-> OrderObject], 1),
                Obj([dynamicOrder |-> OrderObject, instanceStatus |-> S("COMPLETED")], 1)}

\* a call of fetchSubformDatasAll or searchFormDataIdsAll, before its first
\* statement
InitPaged ==
    /\ pc = "pagedLoop"
    /\ \E fn \in {"fetchSubformDatasAll", "searchFormDataIdsAll"},
          full \in 0..MaxPages, formUuid \in {S("FORM-1"), Undef} :
          \E lastLen \in LastPageLengths(PageSizeOf(fn)),
             type \in (IF fn = "fetchSubformDatasAll" THEN {Undef}
                       ELSE {Undef, S("form"), S("process"), S("other")}),
             options \in (IF fn = "fetchSubformDatasAll" THEN {Undef} ELSE OptionsArgs) :
              ds = [fn |-> fn, full |-> full, lastLen |-> lastLen,
                    formUuid |-> formUuid, type |-> type,
                    options |-> options, optionsAtCall |-> options,
                    currentPage |-> 1, all |-> <<>>, requests |-> <<>>,
                    result |-> NoRet]
    /\ FieldIdle /\ LoggerIdle /\ RetryIdle /\ RunnerIdle /\ PageIdle

PagedFrame == UNCHANGED <<fieldType, valA, valB, newVal, oldVal, ret, logger,
                          loggerTrace, rt, runner, page>>

\* the parameters of the request fetchSubformDatas sends
SubformRequest(d) ==
    [source |-> "fetchSubformDatas",
     params |-> [formUuid |-> d.formUuid, formInstanceId |-> S("FINST-1"),
                 tableFieldId |-> S("tableField_k9"),
                 currentPage |-> Num(d.currentPage),
                 pageSize |-> Num(SubformPageSize)]]

\* if (!type) type = "form"
DefaultType(type) == IF Truthy(type) THEN type ELSE S("form")

\* the parameters of the request searchFormDataIds sends, options being the
\* object as it is after EncodeDynamicOrder
IdsRequest(d, options) ==
    [source |-> IF DefaultType(d.type) = S("form") THEN "searchFormDataIds"
                ELSE "getInstanceIds",
     params |-> Spread([formUuid |-> d.formUuid,
                        searchFieldJson |-> JsonStringify(Obj([textField_k1 |-> S("hello")], 1)),
                        currentPage |-> Num(d.currentPage),
                        pageSize |-> Num(SearchPageSize)], options)]

\* one pass of the loop up to its await: fetchSubformDatas or searchFormDataIds
\* checks its arguments and sends the request for currentPage
PagedCall ==
    /\ pc = "pagedLoop"
    /\ IF ~Truthy(ds.formUuid)
       THEN pc' = "pagedThrown" /\ UNCHANGED ds
       ELSE IF ds.fn = "fetchSubformDatasAll"
       THEN /\ ds' = [ds EXCEPT !.requests = Append(@, SubformRequest(ds))]
            /\ pc' = "pagedAwait"
       ELSE LET options == EncodeDynamicOrder(ds.options)
            IN IF DefaultType(ds.type) \in {S("form"), S("process")}
               THEN /\ ds' = [ds EXCEPT !.options = options,
                                        !.requests = Append(@, IdsRequest(ds, options))]
                    /\ pc' = "pagedAwait"
               ELSE /\ ds' = [ds EXCEPT !.options = options]
                    /\ pc' = "pagedThrown"
    /\ PagedFrame

PageEndsWhenEmpty(data, size) == Len(data) = 0

\* subformDatas.length !== pageSize, ids.length !== pageSize
PageEnds(data, size) == Len(data) # size

\* the response arrives: concat, then break or currentPage += 1
PagedResponse ==
    /\ pc = "pagedAwait"
    /\ LET data == BackendPage(ds, ds.currentPage)
           all == ds.all \o data
       IN IF PageEnds(data, PageSizeOf(ds.fn))
          THEN /\ ds' = [ds EXCEPT !.all = all, !.result = Arr(all, 1)]
               /\ pc' = "pagedDone"
          ELSE /\ ds' = [ds EXCEPT !.all = all, !.currentPage = @ + 1]
               /\ pc' = "pagedLoop"
    /\ PagedFrame

NextPaged == PagedCall \/ PagedResponse

SpecPaged == InitPaged /\ [][NextPaged]_vars

\* every request is answered
SpecPagedLive == SpecPaged /\ WF_vars(NextPaged)

\* the pages 1..n of the backend, one after the other
RECURSIVE PagesUpTo(_, _)
PagesUpTo(d, n) == IF n = 0 THEN <<>> ELSE PagesUpTo(d, n - 1) \o BackendPage(d, n)

RequestedPages == [i \in 1..Len(ds.requests) |-> ds.requests[i].params.currentPage.n]

C23_PagedSafe ==
    ds # Unused
        => /\ RequestedPages = [i \in 1..Len(ds.requests) |-> i]
           /\ Len(ds.requests) <= ds.full + 1
           /\ Len(ds.requests) <= ds.currentPage
           /\ \A i \in 1..Len(ds.requests) :
                 ds.requests[i].params.pageSize = Num(PageSizeOf(ds.fn))
           /\ pc = "pagedDone"
                => /\ Len(ds.requests) = ds.full + 1
                   /\ ds.result = Arr(PagesUpTo(ds, ds.full + 1), 1)

\* C23: fetchSubformDatasAll (page size 50) and searchFormDataIdsAll (page size
\* 100) request pages 1, 2, 3, ... one at a time, stop after the first page
\* whose length differs from the page size, issue no request beyond it, return
\* the concatenation of the received pages in page order, and terminate
\* whenever the backend returns such a page.
C23_PagesInOrderUntilShort ==
    /\ [] C23_PagedSafe
    /\ (ds # Unused) ~> (pc \in {"pagedDone", "pagedThrown"})

\* C23 witness: two full pages of 50 and a last page of 49 were fetched and
\* returned, 149 items in all.
C23_Witness ==
    /\ pc = "pagedDone"
    /\ ds.fn = "fetchSubformDatasAll"
    /\ ds.full = 2 /\ ds.lastLen = 49
    /\ Len(ds.requests) = 3
    /\ Len(ds.result.elems) = 149

\* C26: searchFormDataIds leaves the caller's options object unchanged, so
\* every page request of searchFormDataIdsAll with an options.dynamicOrder
\* object carries the same parameters apart from currentPage, with
\* dynamicOrder JSON-encoded exactly once on each page.
C26_OptionsUnchanged ==
    (ds # Unused /\ ds.fn = "searchFormDataIdsAll"
       /\ Truthy(GetProp(ds.optionsAtCall, "dynamicOrder")))
        => /\ ds.options = ds.optionsAtCall
           /\ \A i \in 1..Len(ds.requests) :
                 /\ EncodeDepth(ds.requests[i].params.dynamicOrder) = 1
                 /\ [ds.requests[i].params EXCEPT !.currentPage = Num(1)]
                      = [ds.requests[1].params EXCEPT !.currentPage = Num(1)]

-----------------------------------------------------------------------------
(* utils.js (data source): searchFormDatas, searchFormDatasAll *)

\* field ids used as search conditions and as attributes of form data
TextKey == <<"text", "Field", "_", "k1">>
TextareaKey == <<"textarea", "Field", "_", "k2">>
NumberKey == <<"number", "Field", "_", "k3">>

\* the search conditions: any subset of the three fields, each with its value;
\* the backend matches text fields fuzzily, so "a" also finds "ab"
QueryValue(key) == CASE key = TextKey -> S("a")
                     [] key = TextareaKey -> S("b")
                     [] OTHER -> Num(1)
SearchFieldObjects ==
    {Undef} \cup {Obj([key \in keys |-> QueryValue(key)], 1) :
                     keys \in SUBSET {TextKey, TextareaKey, NumberKey}}

\* the form data of the records a backend returns
ExactData == (TextKey :> S("a")) @@ (TextareaKey :> S("b")) @@ (NumberKey :> Num(1))
FuzzyData == (TextKey :> S("ab")) @@ (TextareaKey :> S("b")) @@ (NumberKey :> Num(1))
OtherData == (TextKey :> S("a")) @@ (TextareaKey :> S("bc")) @@ (NumberKey :> Num(2))
SparseData == (TextKey :> S("a")) @@ (NumberKey :> Num(1))
FormDataSet == {ExactData, FuzzyData, OtherData, SparseData}

\* an item of response.data: a form instance or a process instance
BackendItem(type, instId, formData) ==
    IF type = S("form")
    THEN [title |-> S("t"), formInstId |-> instId, formData |-> formData]
    ELSE [title |-> S("t"), processInstanceId |-> instId, data |-> formData]

\* { title: item.title, instanceId: item.formInstId, ..., ...item.formData } or
\* { title: item.title, instanceId: item.processInstanceId, ..., ...item.data }
MapItem(type, item) ==
    LET head == (<<"title">> :> item.title) @@
                (<<"instanceId">> :> IF type = S("form") THEN item.formInstId
                                     ELSE item.processInstanceId)
        rest == IF type = S("form") THEN item.formData ELSE item.data
    IN [key \in DOMAIN head \cup DOMAIN rest |->
           IF key \in DOMAIN rest THEN rest[key] ELSE head[key]]

\* for (const key in searchFieldObject)
ConditionKeys(searchFieldObject) ==
    IF searchFieldObject.k = "object" THEN DOMAIN searchFieldObject.attrs ELSE {}

IsTextKeyAlways(key) == TRUE

\* fieldType === "text" || fieldType === "textarea"
IsTextKey(key) == getFieldTypeById(Str(key)) \in {S("text"), S("textarea")}

\* the keys of textFieldMap
TextFieldKeys(searchFieldObject) ==
    {key \in ConditionKeys(searchFieldObject) : IsTextKey(key)}

\* formData[fieldId]
FieldOf(formData, fieldId) ==
    IF fieldId \in DOMAIN formData THEN formData[fieldId] ELSE Undef

\* formDatas.filter(...): a record stays unless formData[fieldId] !== value for
\* some entry of textFieldMap
StrictFilter(formDatas, searchFieldObject) ==
    SelectSeq(formDatas,
              LAMBDA formData :
                  \A key \in TextFieldKeys(searchFieldObject) :
                      StrictEq(FieldOf(formData, key), searchFieldObject.attrs[key]))

\* options = Object.assign({ strictQuery: false }, options): a new object
WithDefaults(options) == Obj(Spread([strictQuery |-> Bool(FALSE)], options), 2)

\* searchFormDatas after its await: what it returns for response.data
searchFormDatasReturn(type, searchFieldObject, options, data) ==
    LET formDatas == [i \in 1..Len(data) |-> MapItem(type, data[i])]
    IN [actualPageSize |-> Len(formDatas),
        formDatas |-> IF Truthy(GetProp(options, "strictQuery"))
                      THEN StrictFilter(formDatas, searchFieldObject)
                      ELSE formDatas]

\* the data of page p. A backend of kind "explicit" answers the one page asked
\* for; one of kind "pattern" holds b.full pages of SearchPageSize records, the
\* first b.fullExact of each exact matches and the others fuzzy ones, then a
\* page of b.lastLen records, then empty pages
SearchBackendPage(b, type, p) ==
    IF b.kind = "explicit"
    THEN [i \in 1..Len(b.data) |-> BackendItem(type, <<p, i>>, b.data[i])]
    ELSE LET len == IF p <= b.full THEN SearchPageSize
                    ELSE IF p = b.full + 1 THEN b.lastLen ELSE 0
             exact == IF p <= b.full THEN b.fullExact ELSE b.lastExact
         IN [i \in 1..len |-> BackendItem(type, <<p, i>>,
                                          IF i <= exact THEN ExactData ELSE FuzzyData)]

SearchOptionsArgs == {Undef,
                      Obj([strictQuery |-> Bool(TRUE)], 1),
                      Obj([strictQuery |-> Bool(FALSE)], 1),
                      Obj([strictQuery |-> Bool(TRUE), dynamicOrder |-> OrderObject], 1)}

ExplicitBackends == {[kind |-> "explicit", data |-> data] : data \in SeqsUpTo(FormDataSet, MaxLen)}

PatternBackends ==
    {[kind |-> "pattern", full |-> full, fullExact |-> fullExact,
      lastLen |-> lastLen, lastExact |-> lastExact] :
        full \in 0..MaxPages, fullExact \in {0, 1, SearchPageSize},
        lastLen \in {0, 2, SearchPageSize - 1}, lastExact \in {0, 1}}

\* a call of searchFormDatas (one page of 10) or of searchFormDatasAll
InitSearch ==
    /\ pc = "searchLoop"
    /\ \E fn \in {"searchFormDatas", "searchFormDatasAll"}, options \in SearchOptionsArgs,
          type \in {Undef, S("form"), S("process"), S("other")} :
          \E backend \in (IF fn = "searchFormDatas" THEN ExplicitBackends
                          ELSE PatternBackends),
             formUuid \in (IF fn = "searchFormDatas" THEN {S("FORM-1"), Undef}
                           ELSE {S("FORM-1")}),
             searchFieldObject \in (IF fn = "searchFormDatas" THEN SearchFieldObjects
                                    ELSE {Undef, Obj((TextKey :> S("a")), 1),
                                          Obj((TextKey :> S("a")) @@ (NumberKey :> Num(1)), 1)}) :
              ds = [fn |-> fn, backend |-> backend, formUuid |-> formUuid, type |-> type,
                    searchFieldObject |-> searchFieldObject,
                    options |-> options, optionsAtCall |-> options,
                    currentPage |-> 1,
                    pageSize |-> IF fn = "searchFormDatas" THEN 10 ELSE SearchPageSize,
                    all |-> <<>>, requests |-> <<>>, returned |-> <<>>,
                    result |-> NoRet]
    /\ FieldIdle /\ LoggerIdle /\ RetryIdle /\ RunnerIdle /\ PageIdle

\* the request searchFormDatas sends, options being its own copy of the options
SearchRequest(d, options) ==
    [source |-> IF DefaultType(d.type) = S("form") THEN "searchFormDatas"
                ELSE "getInstances",
     params |-> Spread([formUuid |-> d.formUuid,
                        searchFieldJson |->
                            JsonStringify(IF Truthy(d.searchFieldObject)
                                          THEN d.searchFieldObject ELSE Obj(NoAttrs, 2)),
                        currentPage |-> Num(d.currentPage),
                        pageSize |-> Num(d.pageSize)], options)]

\* searchFormDatas up to its await: argument checks, the copy of the options,
\* the request
SearchCall ==
    /\ pc = "searchLoop"
    /\ IF ~Truthy(ds.formUuid) \/ DefaultType(ds.type) \notin {S("form"), S("process")}
       THEN pc' = "searchThrown" /\ UNCHANGED ds
       ELSE /\ ds' = [ds EXCEPT !.requests =
                          Append(@, SearchRequest(ds, EncodeDynamicOrder(
                                                          WithDefaults(ds.options))))]
            /\ pc' = "searchAwait"
    /\ PagedFrame

SearchPageEndsByFiltered(returned, size) == Len(returned.formDatas) # size

\* actualPageSize !== pageSize
SearchPageEnds(returned, size) == returned.actualPageSize # size

\* the response arrives: searchFormDatas returns; searchFormDatasAll concats
\* and then breaks or goes on with the next page
SearchResponse ==
    /\ pc = "searchAwait"
    /\ LET data == SearchBackendPage(ds.backend, DefaultType(ds.type), ds.currentPage)
           returned == searchFormDatasReturn(DefaultType(ds.type), ds.searchFieldObject,
                                             WithDefaults(ds.options), data)
           all == ds.all \o returned.formDatas
       IN IF ds.fn = "searchFormDatas"
          THEN /\ ds' = [ds EXCEPT !.returned = Append(@, returned),
                                   !.result = Obj(returned, 1)]
               /\ pc' = "searchDone"
          ELSE IF SearchPageEnds(returned, ds.pageSize)
          THEN /\ ds' = [ds EXCEPT !.returned = Append(@, returned), !.all = all,
                                   !.result = Arr(all, 1)]
               /\ pc' = "searchDone"
          ELSE /\ ds' = [ds EXCEPT !.returned = Append(@, returned), !.all = all,
                                   !.currentPage = @ + 1]
               /\ pc' = "searchLoop"
    /\ PagedFrame

NextSearch == SearchCall \/ SearchResponse

SpecSearch == InitSearch /\ [][NextSearch]_vars

\* the records of page p as searchFormDatas maps them, before any filtering
MappedPage(p) ==
    LET data == SearchBackendPage(ds.backend, DefaultType(ds.type), p)
    IN [i \in 1..Len(data) |-> MapItem(DefaultType(ds.type), data[i])]

\* every text or textarea field among the search conditions has, in the
\* record, a value strictly equal to the queried one
StrictlyMatches(formData) ==
    \A key \in {TextKey, TextareaKey} \cap ConditionKeys(ds.searchFieldObject) :
        /\ key \in DOMAIN formData
        /\ formData[key] = ds.searchFieldObject.attrs[key]

StrictQueryOn == GetProp(ds.optionsAtCall, "strictQuery") = Bool(TRUE)

\* C21: with options.strictQuery = true searchFormDatas returns exactly the
\* records of the backend page whose text and textarea condition fields are
\* strictly equal to the queried values; conditions on other field types do
\* not filter; actualPageSize is the number of records the backend returned.
C21_StrictQueryFiltersTextOnly ==
    (ds # Unused /\ pc = "searchDone" /\ ds.fn = "searchFormDatas" /\ StrictQueryOn)
        => /\ ds.returned[1].formDatas = SelectSeq(MappedPage(1), StrictlyMatches)
           /\ ds.returned[1].actualPageSize = Len(ds.backend.data)

\* C21 witness: conditions on a text and a number field; of the two records
\* returned the fuzzy text match is dropped and the record with another number
\* is kept.
C21_Witness ==
    /\ pc = "searchDone"
    /\ ds.fn = "searchFormDatas"
    /\ StrictQueryOn
    /\ ConditionKeys(ds.searchFieldObject) = {TextKey, NumberKey}
    /\ ds.backend.data = <<FuzzyData, OtherData>>
    /\ Len(ds.returned[1].formDatas) = 1
    /\ ds.returned[1].formDatas[1][NumberKey] = Num(2)
    /\ ds.returned[1].actualPageSize = 2

\* the records of pages 1..n that searchFormDatasAll is to return
RECURSIVE MatchesUpTo(_)
MatchesUpTo(n) ==
    IF n = 0 THEN <<>>
    ELSE MatchesUpTo(n - 1) \o (IF StrictQueryOn THEN SelectSeq(MappedPage(n), StrictlyMatches)
                                ELSE MappedPage(n))

\* C22: searchFormDatasAll decides whether to request the next page from the
\* number of records the backend returned, not from the number left after
\* strict filtering: the result is the concatenation, in page order, of the
\* (strictly matching) records of every page up to and including the first
\* page on which the backend returned fewer than 100 records.
C22_AllPagesByActualPageSize ==
    (ds # Unused /\ ds.fn = "searchFormDatasAll" /\ pc # "searchThrown")
        => /\ Len(ds.requests) <= ds.backend.full + 1
           /\ \A i \in 1..Len(ds.requests) :
                 /\ ds.requests[i].params.currentPage = Num(i)
                 /\ ds.requests[i].params.pageSize = Num(100)
           /\ ds.all = MatchesUpTo(Len(ds.returned))
           /\ pc = "searchDone"
                => /\ Len(ds.requests) = ds.backend.full + 1
                   /\ ds.result = Arr(MatchesUpTo(ds.backend.full + 1), 1)

\* C22 witness: strict query; two full pages with one exact match each and a
\* last page of two records with one exact match: three requests, three
\* records returned.
C22_Witness ==
    /\ pc = "searchDone"
    /\ ds.fn = "searchFormDatasAll"
    /\ StrictQueryOn
    /\ ds.backend.full = 2 /\ ds.backend.fullExact = 1
    /\ ds.backend.lastLen = 2 /\ ds.backend.lastExact = 1
    /\ ConditionKeys(ds.searchFieldObject) = {TextKey}
    /\ Len(ds.requests) = 3
    /\ Len(ds.result.elems) = 3

-----------------------------------------------------------------------------
(* DataLinkage: resolveConditionMap, dataLinkage, dataLinkageSubform *)

\* str.startsWith(prefix)
StartsWith(tokens, prefix) ==
    Len(tokens) >= Len(prefix) /\ SubSeq(tokens, 1, Len(prefix)) = prefix

\* fields of this form that conditions read, and fields of the target form
\* they filter on
FromText == <<"text", "Field", "_", "b1">>
FromText2 == <<"text", "Field", "_", "b2">>
FromEmployee == <<"employee", "Field", "_", "b3">>
FromDepartment == <<"departmentSelect", "Field", "_", "b4">>
ToText == <<"text", "Field", "_", "a1">>
ToText2 == <<"text", "Field", "_", "a2">>
TargetField == <<"text", "Field", "_", "a9">>

ConditionItem(from, to, isSubform) == [from |-> from, to |-> to, isSubform |-> isSubform]

\* the ConditionMapItems a caller writes; isSubform items only for
\* dataLinkageSubform
ConditionItems(fn) ==
    {ConditionItem(FromText, ToText, FALSE), ConditionItem(FromText2, ToText, FALSE),
     ConditionItem(FromEmployee, ToText2, FALSE),
     ConditionItem(FromDepartment, ToText2, FALSE)}
    \cup (IF fn = "dataLinkageSubform" THEN {ConditionItem(FromText, ToText2, TRUE)} ELSE {})

\* (value || [])[0]
FirstOf(value) ==
    IF Truthy(value) /\ value.k = "array" /\ Len(value.elems) > 0
    THEN value.elems[1] ELSE Undef

\* the value resolveConditionMap resolves for one condition
ConditionValue(d, condition) ==
    LET raw == IF condition.isSubform THEN FieldOf(d.row, condition.from)
               ELSE FieldOf(d.form, condition.from)
    IN IF StartsWith(condition.from, <<"employee", "Field">>)
       THEN GetProp(FirstOf(raw), "key")
       ELSE IF StartsWith(condition.from, <<"departmentSelect", "Field">>)
       THEN GetProp(FirstOf(raw), "value")
       ELSE raw

\* searchParams[condition.to] = value
SetParam(params, to, value) ==
    [key \in DOMAIN params \cup {to} |-> IF key = to THEN value ELSE params[key]]

\* resolveConditionMap: the for loop over the first n conditions
RECURSIVE ResolveUpTo(_, _)
ResolveUpTo(d, n) ==
    IF n = 0 THEN <<>>
    ELSE SetParam(ResolveUpTo(d, n - 1), d.conditionMap.elems[n].to,
                  ConditionValue(d, d.conditionMap.elems[n]))

\* Array.isArray(conditionMap) ? resolveConditionMap(...) : {}
resolveConditionMap(d) ==
    IF d.conditionMap.k = "array" THEN ResolveUpTo(d, Len(d.conditionMap.elems)) ELSE <<>>

\* subformData[condition.from] with subformData undefined: the changed row is
\* not among the rows of the subform
resolveConditionMapThrows(d) ==
    /\ d.conditionMap.k = "array"
    /\ d.row = Undef
    /\ \E i \in 1..Len(d.conditionMap.elems) : d.conditionMap.elems[i].isSubform

\* value === undefined || value === null || value === ""
IsEmptyParam(value) == value \in {Undef, Null, EmptyStr}

\* Object.values(searchParams).some(...)
ContainEmptyParam(params) == \E key \in DOMAIN params : IsEmptyParam(params[key])

\* stirctCondition = true
StrictCondition(d) == IF d.stirctCondition = Undef THEN TRUE ELSE Truthy(d.stirctCondition)

\* what a post-processor makes of a value
Processed(value) == [k |-> "processed", of |-> value]

\* if (postProcessor instanceof Function) fillValue = postProcessor(context,
\* fillValue); then onChange({ value: fillValue }) or updateItemValue(...)
FillEvent(d, fillValue) ==
    [fn |-> IF d.fn = "dataLinkage" THEN "onChange" ELSE "updateItemValue",
     raw |-> fillValue,
     value |-> IF d.postProcessor = "function" THEN Processed(fillValue) ELSE fillValue]

\* the values context.$(fieldId).getValue() gives for this form's fields
FormValues ==
    {(FromText :> text) @@ (FromText2 :> text2) @@ (FromEmployee :> employee)
       @@ (FromDepartment :> Arr(<<Obj([value |-> S("d1")], 1)>>, 1)) :
        text \in {S("x"), EmptyStr, Null, Undef}, text2 \in {S("y"), EmptyStr},
        employee \in {Arr(<<Obj([key |-> S("e1")], 1)>>, 1), Arr(<<>>, 1)}}

\* a call of dataLinkage or dataLinkageSubform
InitLinkage ==
    /\ pc = "linkageStart"
    /\ \E fn \in {"dataLinkage", "dataLinkageSubform"}, form \in FormValues,
          targetFormUuid \in {S("FORM-aaa"), Undef},
          stirctCondition \in {Undef, Bool(TRUE), Bool(FALSE)},
          postProcessor \in {"undefined", "function"} :
          \E conditionMap \in {Undef} \cup {Arr(items, 1) :
                                              items \in SeqsUpTo(ConditionItems(fn), MaxLen)},
             row \in (IF fn = "dataLinkage" THEN {Undef}
                      ELSE {Undef, (FromText :> S("x")), (FromText :> EmptyStr)}) :
              ds = [fn |-> fn, form |-> form, row |-> row,
                    targetFormUuid |-> targetFormUuid,
                    conditionMap |-> conditionMap,
                    stirctCondition |-> stirctCondition,
                    postProcessor |-> postProcessor,
                    searchParams |-> <<>>, requests |-> <<>>, fills |-> <<>>]
    /\ FieldIdle /\ LoggerIdle /\ RetryIdle /\ RunnerIdle /\ PageIdle

\* dataLinkage / dataLinkageSubform up to the await of searchFormDatasAll, or
\* to the end when no search is made
LinkageCall ==
    /\ pc = "linkageStart"
    /\ IF ~Truthy(ds.targetFormUuid)
       THEN pc' = "linkageReturned" /\ UNCHANGED ds
       ELSE IF resolveConditionMapThrows(ds)
       THEN pc' = "linkageThrown" /\ UNCHANGED ds
       ELSE LET searchParams == resolveConditionMap(ds)
            IN IF ~(StrictCondition(ds) /\ ContainEmptyParam(searchParams))
               THEN /\ ds' = [ds EXCEPT !.searchParams = searchParams,
                                        !.requests = Append(@, searchParams)]
                    /\ pc' = "linkageAwait"
               ELSE /\ ds' = [ds EXCEPT !.searchParams = searchParams,
                                        !.fills = Append(@, FillEvent(ds, Undef))]
                    /\ pc' = "linkageDone"
    /\ PagedFrame

\* what searchFormDatasAll resolves with: no record, a record with the target
\* field or one without it
LinkageResults == {<<>>, <<(TargetField :> S("boss"))>>, <<(ToText :> S("x"))>>}

\* searchFormDatasAll resolves: fillValue = formDatas[0][targetFieldId], then
\* the fill
LinkageSearched(formDatas) ==
    /\ pc = "linkageAwait"
    /\ LET fillValue == IF Len(formDatas) # 0 THEN FieldOf(formDatas[1], TargetField)
                        ELSE Undef
       IN ds' = [ds EXCEPT !.fills = Append(@, FillEvent(ds, fillValue))]
    /\ pc' = "linkageDone"
    /\ PagedFrame

NextLinkage ==
    \/ LinkageCall
    \/ \E formDatas \in LinkageResults : LinkageSearched(formDatas)

SpecLinkage == InitLinkage /\ [][NextLinkage]_vars

\* the values resolved from the condition map, one per condition
ResolvedValues ==
    IF ds.conditionMap.k = "array"
    THEN [i \in 1..Len(ds.conditionMap.elems) |-> ConditionValue(ds, ds.conditionMap.elems[i])]
    ELSE <<>>

\* C24: with stirctCondition = true (the default), if any condition value
\* resolved from the condition map is undefined, null or the empty string,
\* dataLinkage and dataLinkageSubform issue no search request and fill the
\* target field with the empty value (undefined before any post-processor).
C24_EmptyConditionSkipsSearch ==
    (/\ ds # Unused
     /\ pc \in {"linkageAwait", "linkageDone"}
     /\ ds.stirctCondition \in {Undef, Bool(TRUE)}
     /\ \E i \in 1..Len(ResolvedValues) : ResolvedValues[i] \in {Undef, Null, EmptyStr})
        => /\ ds.requests = <<>>
           /\ pc = "linkageDone"
           /\ Len(ds.fills) = 1
           /\ ds.fills[1].raw = Undef

====
